---- MODULE Spec2Model ----
(***************************************************************************)
(* The TODO API of src/app/app.py: a Flask application whose handlers      *)
(* borrow connections from one psycopg2 SimpleConnectionPool (db_pool),    *)
(* run their SQL statements and give the connection back.                  *)
(*                                                                         *)
(* The model has one record per request-handling thread (Flask's server    *)
(* runs handlers in threads that share the module globals), the pool's     *)
(* fields (_pool, _used, _rused, _keys), the state of every connection     *)
(* (transaction status, uncommitted writes, transaction start time) and    *)
(* the database (reachable or not, the todos table, its committed rows,    *)
(* the id sequence, the clock).  A handler advances one statement at a     *)
(* time, so that handlers interleave where the code lets them.             *)
(*                                                                         *)
(* SimpleConnectionPool takes no lock ("a connection pool that can't be    *)
(* shared across different threads"): getconn is three steps here, the     *)
(* increment of _keys (taken with the handler's entry), the read of the    *)
(* key with the lookup in _used and _pool, and the connect() of a new      *)
(* connection, and other threads run between them.                         *)
(*                                                                         *)
(* Several specifications run these actions: Spec (probes and listing by   *)
(* concurrent threads, with outages), SpecCrud (the five handlers of       *)
(* /api/todos by concurrent threads, with an outage), SpecClock (creates   *)
(* and updates by concurrent threads, the clock moving), SpecData and      *)
(* SpecWrites (one worker, one request at a time, the clock moving),       *)
(* SpecWorker (one worker serving probes and listings, with outages,       *)
(* weakly fair) and SpecOutage (one worker serving probes, with outages    *)
(* between the probes).  The properties of the data a single invocation    *)
(* reads and writes are stated for the one-worker specifications; what     *)
(* happens to invocations that were handed one connection is the matter    *)
(* of C7.                                                                  *)
(***************************************************************************)
EXTENDS Integers, Sequences, FiniteSets, TLC

Min(S) == CHOOSE x \in S : \A y \in S : x <= y

\* ------------------------------------------------------------------ bounds

\* minconn=1, maxconn=10 of SimpleConnectionPool(...), app.py:76-77
minconn == 1
maxconn == 10

\* How far past maxconn the model follows len(_used).
SpareConns == 2
\* Largest id the SERIAL column hands out in a run.
MaxId == 2
\* Largest value of the database clock.
MaxClock == 1

Threads == {1, 2}
\* The thread that imports the module (and so runs init_db_pool).
MainThread == Min(Threads)

\* Names for the connection objects and the keys that a thread, the idle
\* list or a live entry of _used refers to (see Install); the entries of
\* _used that nothing can reach any more are counted in leaked.
NT == Cardinality(Threads)
ConnIds == 1 .. (2 * NT + minconn + 1)
Keys == 1 .. (2 * NT + minconn + 1)
Ids == 1 .. MaxId

\* Titles a client sends: JSON null, the empty string, two texts.
Null == "<null>"
Titles == {Null, "", "a", "b"}

VARIABLES
    db_pool,      \* "None" | "Pool": the module global, app.py:54
    idle,         \* _pool: sequence of idle connections
    used,         \* _used: key -> connection (0: no entry)
    leaked,       \* number of entries of _used whose connection no thread holds
    rused,        \* _rused: connection -> key (0: no entry)
    lastKey,      \* _keys, up to renaming of the keys no longer in use
    cstat,        \* connection -> "none" | "idle" | "intrans" | "inerror" | "bad"
    pend,         \* connection -> id -> its transaction's uncommitted write
    ctime,        \* connection -> start time of its open transaction
    dbUp,         \* the database server is reachable
    tableExists,  \* the todos table exists (committed)
    store,        \* id -> committed row
    nextId,       \* next value of the SERIAL sequence
    now,          \* the database clock
    startup,      \* "import" | "schema" | "serving"
    th            \* thread -> its handler invocation

vars == <<db_pool, idle, used, leaked, rused, lastKey, cstat, pend, ctime,
          dbUp, tableExists, store, nextId, now, startup, th>>

poolVars == <<db_pool, idle, used, leaked, rused, lastKey>>
connVars == <<cstat, pend, ctime>>
dbVars == <<dbUp, tableExists, store, nextId, now>>

\* ------------------------------------------------------------------ values

NoRow == [exists |-> FALSE, title |-> "", completed |-> FALSE,
          created_at |-> 0, updated_at |-> 0]

Row(ti, co, cr, up) == [exists |-> TRUE, title |-> ti, completed |-> co,
                        created_at |-> cr, updated_at |-> up]

NoWrite == [w |-> FALSE, row |-> NoRow]
Write(r) == [w |-> TRUE, row |-> r]
NoPend == [i \in Ids |-> NoWrite]

\* request.get_json(): no body, or an object with some of title, completed
NoData == [present |-> FALSE, hasTitle |-> FALSE, title |-> "",
           hasCompleted |-> FALSE, completed |-> FALSE]

Data(ht, ti, hc, co) == [present |-> TRUE, hasTitle |-> ht, title |-> ti,
                         hasCompleted |-> hc, completed |-> co]

Payloads ==
    {NoData, Data(FALSE, "", FALSE, FALSE)}
    \cup {Data(TRUE, ti, FALSE, FALSE) : ti \in Titles}
    \cup {Data(FALSE, "", TRUE, co) : co \in BOOLEAN}
    \cup {Data(TRUE, ti, TRUE, co) : ti \in Titles, co \in BOOLEAN}

\* response bodies
NoBody == [kind |-> "none"]
ErrorBody(msg) == [kind |-> "error", msg |-> msg]
RowBody(i, r) == [kind |-> "row", id |-> i, row |-> r]
NullBody == [kind |-> "null"]
ListBody(ids, rows) == [kind |-> "list", ids |-> ids, rows |-> rows]
HealthBody(h) == [kind |-> "health",
                  status |-> IF h THEN "healthy" ELSE "degraded",
                  database |-> IF h THEN "healthy" ELSE "unhealthy"]

NoResp == [code |-> 0, body |-> NoBody]
Resp(code, body) == [code |-> code, body |-> body]

IdleThread == [op |-> "none", pc |-> "idle", id |-> 0, data |-> NoData,
               key |-> 0, conn |-> 0, got |-> FALSE, nrel |-> 0,
               raised |-> FALSE, resp |-> NoResp]

CrudOps == {"get_todos", "create_todo", "get_todo", "update_todo", "delete_todo"}
MutatingOps == {"create_todo", "update_todo", "delete_todo"}


\* ------------------------------------------------------------------ helpers

\* Fault: the rows come back in descending order of id.
RECURSIVE OrderByIdDesc(_)
OrderByIdDesc(S) ==
    IF S = {} THEN <<>> ELSE OrderByIdDesc(S \ {Min(S)}) \o <<Min(S)>>

\* ORDER BY id
RECURSIVE OrderById(_)
OrderById(S) == IF S = {} THEN <<>> ELSE <<Min(S)>> \o OrderById(S \ {Min(S)})

UsedKeys == {k \in Keys : used[k] # 0}

\* len(self._used): the connections checked out of the pool
UsedCount == leaked + Cardinality(UsedKeys)

FreeConns == {c \in ConnIds : cstat[c] = "none"}
FreeKeys == {k \in Keys : used[k] = 0 /\ \A t \in Threads : th[t].key # k}

\* what the connection's transaction sees: the committed rows under its own
\* uncommitted writes (READ COMMITTED)
Visible(c) == [i \in Ids |-> IF pend[c][i].w THEN pend[c][i].row ELSE store[i]]

\* CURRENT_TIMESTAMP: the start time of the connection's transaction
TxnTime(c) == IF cstat[c] = "idle" THEN now ELSE ctime[c]

\* another transaction holds the row lock of id i
LockedByOther(c, i) == store[i].exists /\ \E d \in ConnIds : d # c /\ pend[d][i].w

\* a statement on connection c raises: the connection is lost or closed, its
\* transaction is already aborted, or the statement names a missing table
StmtFails(c, needsTable) ==
    \/ cstat[c] \in {"bad", "inerror"}
    \/ needsTable /\ ~tableExists

\* the connection after a statement that raised
FailStat(c) == [cstat EXCEPT ![c] = IF @ = "bad" THEN "bad" ELSE "inerror"]
FailTime(c) == [ctime EXCEPT ![c] = 0]

\* the connection after a statement that ran: BEGIN was sent if none was open
OkStat(c) == [cstat EXCEPT ![c] = "intrans"]
OkTime(c) == [ctime EXCEPT ![c] = TxnTime(c)]

SetTh(t, r) == th' = [th EXCEPT ![t] = r]

With(t, r) == [th EXCEPT ![t] = r]

\* The state of the pool, the connections and the threads after a step that
\* moves a connection or a key.  Connection objects and keys have no names
\* in the program: the step's result is written with each object named after
\* the first thread that holds it (else its place in _pool, else the key of
\* its entry in _used), and each key after the first thread that holds it
\* (else as the value _keys has for a thread about to read it, else after
\* the connection of its entry).  An entry of _used whose key no thread
\* holds or is about to read and whose connection no thread holds is out of
\* reach for good: it is counted in leaked.  A connection object nothing
\* refers to is collected, which closes it.
ConnNames0(th1, idle1) ==
    [c \in ConnIds |->
        LET holdC == {t \in Threads : th1[t].conn = c}
            posC == {i \in 1 .. Len(idle1) : idle1[i] = c} IN
        IF holdC # {} THEN Min(holdC)
        ELSE IF posC # {} THEN NT + Min(posC)
        ELSE 0]

KeyNames(th1, used1, lastKey1, cname0) ==
    [k \in Keys |->
        LET holdK == {t \in Threads : th1[t].key = k} IN
        IF holdK # {} THEN Min(holdK)
        ELSE IF k = lastKey1 /\ \E t \in Threads : th1[t].pc = "acq" THEN NT + 1
        ELSE IF used1[k] # 0 /\ cname0[used1[k]] # 0 THEN NT + 1 + cname0[used1[k]]
        ELSE 0]

ConnNames(used1, cname0, kname) ==
    [c \in ConnIds |->
        LET entryK == {k \in Keys : used1[k] = c /\ kname[k] # 0} IN
        IF cname0[c] # 0 THEN cname0[c]
        ELSE IF entryK # {} THEN NT + minconn + Min({kname[k] : k \in entryK})
        ELSE 0]

\* the object (or key) that gets name n, 0 if none
Named(name, n) ==
    LET S == {x \in DOMAIN name : name[x] = n} IN IF S = {} THEN 0 ELSE Min(S)

Install(th1, idle1, used1, rused1, cstat1, pend1, ctime1, lastKey1) ==
    \E cname0 \in {ConnNames0(th1, idle1)} :
    \E kname \in {KeyNames(th1, used1, lastKey1, cname0)} :
    \E cname \in {ConnNames(used1, cname0, kname)} :
    \E cold \in {[n \in ConnIds |-> Named(cname, n)]} :
    \E kold \in {[n \in Keys |-> Named(kname, n)]} :
    LET CName(c) == IF c = 0 THEN 0 ELSE cname[c]
        KName(k) == IF k = 0 THEN 0 ELSE kname[k]
    IN  /\ \A c, d \in ConnIds : c # d /\ cname[c] # 0 => cname[c] # cname[d]
        /\ \A k, l \in Keys : k # l /\ kname[k] # 0 => kname[k] # kname[l]
        /\ th' = [t \in Threads |->
                   [th1[t] EXCEPT !.conn = CName(@), !.key = KName(@)]]
        /\ idle' = [i \in 1 .. Len(idle1) |-> CName(idle1[i])]
        /\ used' = [n \in Keys |-> IF kold[n] = 0 THEN 0 ELSE CName(used1[kold[n]])]
        /\ rused' = [n \in ConnIds |-> IF cold[n] = 0 THEN 0 ELSE KName(rused1[cold[n]])]
        /\ cstat' = [n \in ConnIds |-> IF cold[n] = 0 THEN "none" ELSE cstat1[cold[n]]]
        /\ pend' = [n \in ConnIds |-> IF cold[n] = 0 THEN NoPend ELSE pend1[cold[n]]]
        /\ ctime' = [n \in ConnIds |-> IF cold[n] = 0 THEN 0 ELSE ctime1[cold[n]]]
        /\ lastKey' = IF \E t \in Threads : th1[t].pc = "acq" THEN KName(lastKey1) ELSE 0
        /\ leaked' = leaked + Cardinality({k \in Keys : used1[k] # 0 /\ kname[k] = 0})

\* ------------------------------------------------------------------ Init

InitialRows ==
    {[i \in Ids |-> NoRow],
     [i \in Ids |-> IF i = 1 THEN Row("a", FALSE, 0, 0) ELSE NoRow]}

Init ==
    /\ db_pool = "None"
    /\ idle = <<>>
    /\ used = [k \in Keys |-> 0]
    /\ leaked = 0
    /\ rused = [c \in ConnIds |-> 0]
    /\ lastKey = 0
    /\ cstat = [c \in ConnIds |-> "none"]
    /\ pend = [c \in ConnIds |-> NoPend]
    /\ ctime = [c \in ConnIds |-> 0]
    /\ dbUp \in BOOLEAN
    /\ tableExists \in BOOLEAN
    /\ store \in InitialRows
    /\ (~tableExists => store = [i \in Ids |-> NoRow])
    /\ nextId = IF store[1].exists THEN 2 ELSE 1
    /\ now = 0
    /\ startup = "import"
    /\ th = [t \in Threads |-> IdleThread]

\* ------------------------------------------------------------------ environment

\* the database becomes unreachable: every open connection is lost and the
\* server aborts their transactions
DbDown ==
    /\ dbUp
    /\ dbUp' = FALSE
    /\ cstat' = [c \in ConnIds |-> IF cstat[c] = "none" THEN "none" ELSE "bad"]
    /\ pend' = [c \in ConnIds |-> NoPend]
    /\ ctime' = [c \in ConnIds |-> 0]
    /\ UNCHANGED <<poolVars, tableExists, store, nextId, now, startup, th>>

DbUp ==
    /\ ~dbUp
    /\ dbUp' = TRUE
    /\ UNCHANGED <<poolVars, connVars, tableExists, store, nextId, now, startup, th>>

Tick ==
    /\ now < MaxClock
    /\ now' = now + 1
    /\ UNCHANGED <<poolVars, connVars, dbUp, tableExists, store, nextId, startup, th>>

\* ------------------------------------------------------------------ startup

\* app.py:164-169 with init_db_pool, app.py:73-87: the pool is built with
\* minconn connections; when that raises db_pool stays None and the module
\* goes on; otherwise init_schema runs on the importing thread
init_db_pool ==
    /\ startup = "import"
    /\ IF dbUp
       THEN /\ db_pool' = "Pool"
            /\ startup' = "schema"
            /\ Install(With(MainThread, [IdleThread EXCEPT !.op = "init_schema", !.pc = "acq"]),
                       [i \in 1 .. minconn |-> i], used, rused,
                       [c \in ConnIds |-> IF c <= minconn THEN "idle" ELSE "none"],
                       pend, ctime, Min(FreeKeys))
       ELSE /\ startup' = "serving"
            /\ UNCHANGED <<poolVars, connVars, th>>
    /\ UNCHANGED dbVars

\* ------------------------------------------------------------------ get_db_conn

\* Fault: health calls get_db_conn outside its try block, as the CRUD
\* handlers do, so the exception leaves it too.
FailedAcquireUncaught(r) == [r EXCEPT !.pc = "done", !.key = 0, !.raised = TRUE]

\* get_db_conn raised.  health catches it (app.py:202); in every other
\* caller the call stands before the try block and the exception leaves the
\* function
FailedAcquire(r) ==
    IF r.op = "health"
    THEN [r EXCEPT !.pc = "done", !.key = 0, !.resp = Resp(503, HealthBody(FALSE))]
    ELSE [r EXCEPT !.pc = "done", !.key = 0, !.raised = TRUE]

\* the thread that holds connection c under key k
Acquired(r, k, c) == [r EXCEPT !.pc = "exec", !.key = k, !.conn = c, !.got = TRUE]

\* Fault: a pool that makes the caller wait while every connection is out.
GetConnBlocking(t) ==
    /\ th[t].pc = "acq"
    /\ LET k == lastKey IN
       IF used[k] # 0
       THEN Install(With(t, Acquired(th[t], k, used[k])), idle, used, rused,
                    cstat, pend, ctime, lastKey)
       ELSE IF idle # <<>>
       THEN LET c == idle[Len(idle)] IN
            Install(With(t, Acquired(th[t], k, c)), SubSeq(idle, 1, Len(idle) - 1),
                    [used EXCEPT ![k] = c], [rused EXCEPT ![c] = k],
                    cstat, pend, ctime, lastKey)
       ELSE /\ UsedCount # maxconn
            /\ Install(With(t, [th[t] EXCEPT !.pc = "connect", !.key = k]), idle, used,
                       rused, cstat, pend, ctime, lastKey)
    /\ UNCHANGED <<db_pool, dbVars, startup>>

\* db_pool.getconn() after the increment of _keys: _getkey returns
\* self._keys as it is now; then the lookup in _used, the pop from _pool, or
\* the test of len(_used) against maxconn
GetConn(t) ==
    /\ th[t].pc = "acq"
    /\ LET k == lastKey IN
       IF used[k] # 0
       THEN Install(With(t, Acquired(th[t], k, used[k])), idle, used, rused,
                    cstat, pend, ctime, lastKey)
       ELSE IF idle # <<>>
       THEN LET c == idle[Len(idle)] IN
            Install(With(t, Acquired(th[t], k, c)), SubSeq(idle, 1, Len(idle) - 1),
                    [used EXCEPT ![k] = c], [rused EXCEPT ![c] = k],
                    cstat, pend, ctime, lastKey)
       ELSE IF UsedCount = maxconn
       THEN Install(With(t, FailedAcquire(th[t])), idle, used, rused,
                    cstat, pend, ctime, lastKey)
       ELSE Install(With(t, [th[t] EXCEPT !.pc = "connect", !.key = k]), idle, used, rused,
                    cstat, pend, ctime, lastKey)
    /\ UNCHANGED <<db_pool, dbVars, startup>>

\* third step: _connect(key): psycopg2.connect, then the entries in _used
\* and _rused
Connect(t) ==
    /\ th[t].pc = "connect"
    /\ IF dbUp
       THEN /\ UsedCount < maxconn + SpareConns
            /\ LET c == Min(FreeConns) IN
               Install(With(t, Acquired(th[t], th[t].key, c)), idle,
                       [used EXCEPT ![th[t].key] = c], [rused EXCEPT ![c] = th[t].key],
                       [cstat EXCEPT ![c] = "idle"], pend, ctime, lastKey)
       ELSE Install(With(t, FailedAcquire(th[t])), idle, used, rused,
                    cstat, pend, ctime, lastKey)
    /\ UNCHANGED <<db_pool, dbVars, startup>>

\* ------------------------------------------------------------------ requests

\* Fault: the server takes requests while the module is still importing.
ServingBeforeStartup(t) == th[t].pc = "idle"

Serving(t) == startup = "serving" /\ th[t].pc = "idle"

\* the handler runs up to its call of get_db_conn and into getconn:
\* db_pool is None (AttributeError), or _getkey's self._keys += 1
Invoke(t, op, i, d) ==
    LET r == [IdleThread EXCEPT !.op = op, !.pc = "acq", !.id = i, !.data = d] IN
    IF db_pool = "None"
    THEN /\ SetTh(t, FailedAcquire(r))
         /\ UNCHANGED <<idle, used, leaked, rused, lastKey, connVars>>
    ELSE Install(With(t, r), idle, used, rused, cstat, pend, ctime, Min(FreeKeys))

\* creates that may still draw an id from the sequence
DrawingIds ==
    Cardinality({t \in Threads : th[t].op = "create_todo"
                                 /\ th[t].pc \in {"acq", "connect", "exec"}})

\* GET /health, app.py:195-197
health(t) ==
    /\ Serving(t)
    /\ Invoke(t, "health", 0, NoData)
    /\ UNCHANGED <<db_pool, dbVars, startup>>

\* GET /api/todos, app.py:238
get_todos(t) ==
    /\ Serving(t)
    /\ Invoke(t, "get_todos", 0, NoData)
    /\ UNCHANGED <<db_pool, dbVars, startup>>

\* Fault: create_todo asks for its connection before it looks at the payload.
create_todo_unvalidated(t, d) ==
    /\ Serving(t)
    /\ nextId + DrawingIds <= MaxId
    /\ Invoke(t, "create_todo", 0, d)
    /\ UNCHANGED <<db_pool, dbVars, startup>>

\* POST /api/todos, app.py:278-283: the payload is checked before any
\* connection is asked for
create_todo(t, d) ==
    /\ Serving(t)
    /\ IF ~d.present \/ ~d.hasTitle
       THEN /\ SetTh(t, [IdleThread EXCEPT !.op = "create_todo", !.pc = "done", !.data = d,
                             !.resp = Resp(400, ErrorBody("Title is required"))])
            /\ UNCHANGED <<idle, used, leaked, rused, lastKey, connVars>>
       ELSE /\ nextId + DrawingIds <= MaxId
            /\ Invoke(t, "create_todo", 0, d)
    /\ UNCHANGED <<db_pool, dbVars, startup>>

\* GET /api/todos/<id>, app.py:325
get_todo(t, i) ==
    /\ Serving(t)
    /\ Invoke(t, "get_todo", i, NoData)
    /\ UNCHANGED <<db_pool, dbVars, startup>>

\* PUT /api/todos/<id>, app.py:372-374
update_todo(t, i, d) ==
    /\ Serving(t)
    /\ Invoke(t, "update_todo", i, d)
    /\ UNCHANGED <<db_pool, dbVars, startup>>

\* DELETE /api/todos/<id>, app.py:424
delete_todo(t, i) ==
    /\ Serving(t)
    /\ Invoke(t, "delete_todo", i, NoData)
    /\ UNCHANGED <<db_pool, dbVars, startup>>

\* ------------------------------------------------------------------ statements

\* health, app.py:198-203: SELECT 1; when it raises the except clause logs
\* and the function goes on to its return: return_db_conn is not reached
health_execute(t) ==
    /\ th[t].pc = "exec" /\ th[t].op = "health"
    /\ LET c == th[t].conn IN
       IF StmtFails(c, FALSE)
       THEN /\ cstat' = FailStat(c)
            /\ ctime' = FailTime(c)
            /\ SetTh(t, [th[t] EXCEPT !.pc = "done",
                                      !.resp = Resp(503, HealthBody(FALSE))])
       ELSE /\ cstat' = OkStat(c)
            /\ ctime' = OkTime(c)
            /\ SetTh(t, [th[t] EXCEPT !.pc = "release",
                                      !.resp = Resp(200, HealthBody(TRUE))])
    /\ UNCHANGED <<poolVars, pend, dbVars, startup>>

\* get_todos, app.py:240-249
get_todos_execute(t) ==
    /\ th[t].pc = "exec" /\ th[t].op = "get_todos"
    /\ LET c == th[t].conn IN
       IF StmtFails(c, TRUE)
       THEN /\ cstat' = FailStat(c)
            /\ ctime' = FailTime(c)
            /\ SetTh(t, [th[t] EXCEPT !.pc = "release",
                                      !.resp = Resp(500, ErrorBody("Database error"))])
       ELSE /\ cstat' = OkStat(c)
            /\ ctime' = OkTime(c)
            /\ SetTh(t, [th[t] EXCEPT !.pc = "release",
                   !.resp = Resp(200, ListBody(OrderById({i \in Ids : Visible(c)[i].exists}),
                                               Visible(c)))])
    /\ UNCHANGED <<poolVars, pend, dbVars, startup>>

\* get_todo, app.py:327-337
get_todo_execute(t) ==
    /\ th[t].pc = "exec" /\ th[t].op = "get_todo"
    /\ LET c == th[t].conn
           todo == Visible(c)[th[t].id] IN
       IF StmtFails(c, TRUE)
       THEN /\ cstat' = FailStat(c)
            /\ ctime' = FailTime(c)
            /\ SetTh(t, [th[t] EXCEPT !.pc = "release",
                                      !.resp = Resp(500, ErrorBody("Database error"))])
       ELSE /\ cstat' = OkStat(c)
            /\ ctime' = OkTime(c)
            /\ SetTh(t, [th[t] EXCEPT !.pc = "release",
                   !.resp = IF todo.exists THEN Resp(200, RowBody(th[t].id, todo))
                            ELSE Resp(404, ErrorBody("Todo not found"))])
    /\ UNCHANGED <<poolVars, pend, dbVars, startup>>

\* Fault: a completed that the payload leaves out is stored as true.
InsertedCompleted(d, ts) ==
    Row(d.title, IF d.hasCompleted THEN d.completed ELSE TRUE, ts, ts)

\* the row of INSERT INTO todos (title, completed) VALUES (%s, %s) with
\* (data['title'], data.get('completed', False)), app.py:286-289; the
\* timestamps are the columns' defaults
Inserted(d, ts) ==
    Row(d.title, IF d.hasCompleted THEN d.completed ELSE FALSE, ts, ts)

\* create_todo, app.py:285-290: INSERT ... RETURNING.  The id is drawn from
\* the sequence before the NOT NULL constraint is checked
create_todo_execute(t) ==
    /\ th[t].pc = "exec" /\ th[t].op = "create_todo"
    /\ LET c == th[t].conn
           d == th[t].data
           todo == Inserted(d, TxnTime(c)) IN
       IF StmtFails(c, TRUE)
       THEN /\ cstat' = FailStat(c)
            /\ ctime' = FailTime(c)
            /\ SetTh(t, [th[t] EXCEPT !.pc = "rollback"])
            /\ UNCHANGED <<pend, nextId>>
       ELSE /\ nextId <= MaxId
            /\ nextId' = nextId + 1
            /\ IF d.title = Null
               THEN /\ cstat' = FailStat(c)
                    /\ ctime' = FailTime(c)
                    /\ SetTh(t, [th[t] EXCEPT !.pc = "rollback"])
                    /\ UNCHANGED pend
               ELSE /\ cstat' = OkStat(c)
                    /\ ctime' = OkTime(c)
                    /\ pend' = [pend EXCEPT ![c][nextId] = Write(todo)]
                    /\ SetTh(t, [th[t] EXCEPT !.pc = "commit", !.id = nextId,
                                              !.resp = Resp(0, RowBody(nextId, todo))])
    /\ UNCHANGED <<poolVars, dbUp, tableExists, store, now, startup>>

\* Fault: update_todo goes on to its UPDATE without the existence check.
update_todo_select_unchecked(t) ==
    /\ th[t].pc = "exec" /\ th[t].op = "update_todo"
    /\ LET c == th[t].conn IN
       IF StmtFails(c, TRUE)
       THEN /\ cstat' = FailStat(c)
            /\ ctime' = FailTime(c)
            /\ SetTh(t, [th[t] EXCEPT !.pc = "rollback"])
       ELSE /\ cstat' = OkStat(c)
            /\ ctime' = OkTime(c)
            /\ SetTh(t, [th[t] EXCEPT !.pc = "exec2"])
    /\ UNCHANGED <<poolVars, pend, dbVars, startup>>

\* update_todo, app.py:376-380: the existence check
update_todo_select(t) ==
    /\ th[t].pc = "exec" /\ th[t].op = "update_todo"
    /\ LET c == th[t].conn IN
       IF StmtFails(c, TRUE)
       THEN /\ cstat' = FailStat(c)
            /\ ctime' = FailTime(c)
            /\ SetTh(t, [th[t] EXCEPT !.pc = "rollback"])
       ELSE /\ cstat' = OkStat(c)
            /\ ctime' = OkTime(c)
            /\ SetTh(t, IF Visible(c)[th[t].id].exists
                        THEN [th[t] EXCEPT !.pc = "exec2"]
                        ELSE [th[t] EXCEPT !.pc = "release",
                                 !.resp = Resp(404, ErrorBody("Todo not found"))])
    /\ UNCHANGED <<poolVars, pend, dbVars, startup>>

\* Fault: the UPDATE sets every column from the payload (a full replace).
UpdatedInFull(r, d, ts) ==
    [r EXCEPT !.title = d.title, !.completed = d.completed, !.updated_at = ts]

\* the row the UPDATE statement built at app.py:383-395 writes over row r
Updated(r, d, ts) ==
    [r EXCEPT !.title = IF d.hasTitle THEN d.title ELSE @,
              !.completed = IF d.hasCompleted THEN d.completed ELSE @,
              !.updated_at = ts]

\* update_todo, app.py:382-397: 'title' in data raises when there is no
\* payload; the UPDATE waits for the row lock, then writes the row as it is
\* committed now, or no row when it is gone
update_todo_execute(t) ==
    /\ th[t].pc = "exec2" /\ th[t].op = "update_todo"
    /\ LET c == th[t].conn
           d == th[t].data
           i == th[t].id
           old == Visible(c)[i]
           todo == Updated(old, d, TxnTime(c)) IN
       IF ~d.present
       THEN /\ SetTh(t, [th[t] EXCEPT !.pc = "rollback"])
            /\ UNCHANGED <<cstat, ctime, pend>>
       ELSE IF StmtFails(c, TRUE)
       THEN /\ cstat' = FailStat(c)
            /\ ctime' = FailTime(c)
            /\ SetTh(t, [th[t] EXCEPT !.pc = "rollback"])
            /\ UNCHANGED pend
       ELSE /\ ~LockedByOther(c, i)
            /\ IF old.exists /\ d.hasTitle /\ d.title = Null
               THEN /\ cstat' = FailStat(c)
                    /\ ctime' = FailTime(c)
                    /\ SetTh(t, [th[t] EXCEPT !.pc = "rollback"])
                    /\ UNCHANGED pend
               ELSE /\ cstat' = OkStat(c)
                    /\ ctime' = OkTime(c)
                    /\ pend' = IF old.exists THEN [pend EXCEPT ![c][i] = Write(todo)]
                               ELSE pend
                    /\ SetTh(t, [th[t] EXCEPT !.pc = "commit",
                           !.resp = Resp(0, IF old.exists THEN RowBody(i, todo)
                                            ELSE NullBody)])
    /\ UNCHANGED <<poolVars, dbVars, startup>>

\* delete_todo, app.py:426-430: DELETE ... RETURNING id
delete_todo_execute(t) ==
    /\ th[t].pc = "exec" /\ th[t].op = "delete_todo"
    /\ LET c == th[t].conn
           i == th[t].id IN
       IF StmtFails(c, TRUE)
       THEN /\ cstat' = FailStat(c)
            /\ ctime' = FailTime(c)
            /\ SetTh(t, [th[t] EXCEPT !.pc = "rollback"])
            /\ UNCHANGED pend
       ELSE /\ ~LockedByOther(c, i)
            /\ cstat' = OkStat(c)
            /\ ctime' = OkTime(c)
            /\ IF Visible(c)[i].exists
               THEN /\ pend' = [pend EXCEPT ![c][i] = Write(NoRow)]
                    /\ SetTh(t, [th[t] EXCEPT !.pc = "commit"])
               ELSE /\ SetTh(t, [th[t] EXCEPT !.pc = "release",
                                    !.resp = Resp(404, ErrorBody("Todo not found"))])
                    /\ UNCHANGED pend
    /\ UNCHANGED <<poolVars, dbVars, startup>>

\* Fault: the statement drops the table and creates it again.
init_schema_recreate(t) ==
    /\ th[t].pc = "exec" /\ th[t].op = "init_schema"
    /\ LET c == th[t].conn IN
       IF StmtFails(c, FALSE)
       THEN /\ cstat' = FailStat(c)
            /\ ctime' = FailTime(c)
            /\ SetTh(t, [th[t] EXCEPT !.pc = "rollback"])
            /\ UNCHANGED pend
       ELSE /\ cstat' = OkStat(c)
            /\ ctime' = OkTime(c)
            /\ pend' = [pend EXCEPT ![c] = [i \in Ids |-> IF store[i].exists
                                                         THEN Write(NoRow) ELSE NoWrite]]
            /\ SetTh(t, [th[t] EXCEPT !.pc = "commit"])
    /\ UNCHANGED <<poolVars, dbVars, startup>>

\* init_schema, app.py:109-118: CREATE TABLE IF NOT EXISTS
init_schema_execute(t) ==
    /\ th[t].pc = "exec" /\ th[t].op = "init_schema"
    /\ LET c == th[t].conn IN
       IF StmtFails(c, FALSE)
       THEN /\ cstat' = FailStat(c)
            /\ ctime' = FailTime(c)
            /\ SetTh(t, [th[t] EXCEPT !.pc = "rollback"])
       ELSE /\ cstat' = OkStat(c)
            /\ ctime' = OkTime(c)
            /\ SetTh(t, [th[t] EXCEPT !.pc = "commit"])
    /\ UNCHANGED <<poolVars, pend, dbVars, startup>>

\* the response of a handler whose commit went through
Committed(r) ==
    CASE r.op = "create_todo" -> Resp(201, r.resp.body)
      [] r.op = "update_todo" -> Resp(200, r.resp.body)
      [] r.op = "delete_todo" -> Resp(204, NoBody)
      [] OTHER -> NoResp

\* conn.commit(), app.py:119, 291, 398, 431: raises on a lost connection;
\* ends an aborted transaction without writing; else the writes become the
\* committed rows
Commit(t) ==
    /\ th[t].pc = "commit"
    /\ LET c == th[t].conn IN
       IF cstat[c] = "bad"
       THEN /\ SetTh(t, [th[t] EXCEPT !.pc = "rollback"])
            /\ UNCHANGED <<cstat, pend, ctime, store, tableExists>>
       ELSE /\ store' = IF cstat[c] = "inerror" THEN store ELSE Visible(c)
            /\ tableExists' = (tableExists \/
                               (th[t].op = "init_schema" /\ cstat[c] = "intrans"))
            /\ cstat' = [cstat EXCEPT ![c] = "idle"]
            /\ pend' = [pend EXCEPT ![c] = NoPend]
            /\ ctime' = [ctime EXCEPT ![c] = 0]
            /\ SetTh(t, [th[t] EXCEPT !.pc = "release", !.resp = Committed(th[t])])
    /\ UNCHANGED <<poolVars, dbUp, nextId, now, startup>>

\* Fault: return_db_conn stands after the try statement instead of in a
\* finally clause, so a rollback that raises skips it.
RollbackWithoutFinally(t) ==
    /\ th[t].pc = "rollback"
    /\ LET c == th[t].conn IN
       IF cstat[c] = "bad"
       THEN /\ SetTh(t, [th[t] EXCEPT !.pc = "done", !.raised = TRUE, !.resp = NoResp])
            /\ UNCHANGED <<cstat, pend, ctime>>
       ELSE /\ cstat' = [cstat EXCEPT ![c] = "idle"]
            /\ pend' = [pend EXCEPT ![c] = NoPend]
            /\ ctime' = [ctime EXCEPT ![c] = 0]
            /\ SetTh(t, IF th[t].op = "init_schema"
                        THEN [th[t] EXCEPT !.pc = "release", !.raised = TRUE]
                        ELSE [th[t] EXCEPT !.pc = "release",
                                 !.resp = Resp(500, ErrorBody("Database error"))])
    /\ UNCHANGED <<poolVars, dbVars, startup>>

\* the except clauses with conn.rollback(), app.py:121-124, 294-297,
\* 402-405, 434-437: rollback raises on a lost connection and the exception
\* leaves the handler through its finally clause; init_schema re-raises
Rollback(t) ==
    /\ th[t].pc = "rollback"
    /\ LET c == th[t].conn IN
       IF cstat[c] = "bad"
       THEN /\ SetTh(t, [th[t] EXCEPT !.pc = "release", !.raised = TRUE, !.resp = NoResp])
            /\ UNCHANGED <<cstat, pend, ctime>>
       ELSE /\ cstat' = [cstat EXCEPT ![c] = "idle"]
            /\ pend' = [pend EXCEPT ![c] = NoPend]
            /\ ctime' = [ctime EXCEPT ![c] = 0]
            /\ SetTh(t, IF th[t].op = "init_schema"
                        THEN [th[t] EXCEPT !.pc = "release", !.raised = TRUE]
                        ELSE [th[t] EXCEPT !.pc = "release",
                                 !.resp = Resp(500, ErrorBody("Database error"))])
    /\ UNCHANGED <<poolVars, dbVars, startup>>

\* ------------------------------------------------------------------ return_db_conn

\* the thread after db_pool.putconn(conn): health swallows what it raises
\* (app.py:201-203); in a finally clause the exception replaces the response
Released(r, raises) ==
    IF r.op = "health" \/ ~raises
    THEN [r EXCEPT !.pc = "done", !.key = 0, !.nrel = @ + 1]
    ELSE [r EXCEPT !.pc = "done", !.key = 0, !.nrel = @ + 1,
                   !.raised = TRUE, !.resp = NoResp]

\* return_db_conn, app.py:161, with putconn: the key is looked up in
\* _rused (PoolError when there is none); the connection is kept in _pool
\* while _pool holds fewer than minconn, rolled back if a transaction is
\* open, dropped if it is lost, and closed otherwise; then its entries leave
\* _used (KeyError when there is none) and _rused
return_db_conn(t) ==
    /\ th[t].pc = "release"
    /\ LET c == th[t].conn
           k == rused[c]
           keep == Len(idle) < minconn /\ cstat[c] # "bad"
           idle1 == IF keep THEN Append(idle, c) ELSE idle
           cstat1 == [cstat EXCEPT ![c] = IF keep THEN "idle" ELSE "bad"]
           pend1 == [pend EXCEPT ![c] = NoPend]
           ctime1 == [ctime EXCEPT ![c] = 0] IN
       IF k = 0
       THEN Install(With(t, Released(th[t], TRUE)), idle, used, rused,
                    cstat, pend, ctime, lastKey)
       ELSE IF used[k] = 0
       THEN Install(With(t, Released(th[t], TRUE)), idle1, used, rused,
                    cstat1, pend1, ctime1, lastKey)
       ELSE Install(With(t, Released(th[t], FALSE)), idle1, [used EXCEPT ![k] = 0],
                    [rused EXCEPT ![c] = 0], cstat1, pend1, ctime1, lastKey)
    /\ UNCHANGED <<db_pool, dbVars, startup>>

\* the invocation ends: the response (or the exception) leaves the function
\* and its locals die; the end of init_schema ends the startup sequence
Finish(t) ==
    /\ th[t].pc = "done"
    /\ startup' = IF th[t].op = "init_schema" THEN "serving" ELSE startup
    /\ Install(With(t, IdleThread), idle, used, rused, cstat, pend, ctime, lastKey)
    /\ UNCHANGED <<db_pool, dbVars>>

\* ------------------------------------------------------------------ specifications

\* the steps every invocation takes through the pool
PoolStep(t) ==
    \/ GetConn(t)
    \/ Connect(t)
    \/ return_db_conn(t)
    \/ Finish(t)

\* the payloads of the clients below: none at all, and one with a title
SomePayloads == {NoData, Data(TRUE, "b", FALSE, FALSE)}
SomeIds == {1}

\* Spec: the probes and the listing served by concurrent threads while the
\* database goes away and comes back
Next ==
    \/ init_db_pool
    \/ DbDown
    \/ DbUp
    \/ \E t \in Threads :
        \/ health(t)
        \/ get_todos(t)
        \/ health_execute(t)
        \/ get_todos_execute(t)
        \/ init_schema_execute(t)
        \/ Commit(t)
        \/ Rollback(t)
        \/ PoolStep(t)

Spec == Init /\ [][Next]_vars

\* SpecCrud: the five handlers of /api/todos served by concurrent threads;
\* the database may go away at any moment
NextCrud ==
    \/ init_db_pool
    \/ DbDown
    \/ \E t \in Threads :
        \/ get_todos(t)
        \/ \E d \in SomePayloads : create_todo(t, d)
        \/ \E i \in SomeIds : get_todo(t, i)
        \/ \E i \in SomeIds, d \in SomePayloads : update_todo(t, i, d)
        \/ \E i \in SomeIds : delete_todo(t, i)
        \/ get_todos_execute(t)
        \/ get_todo_execute(t)
        \/ create_todo_execute(t)
        \/ update_todo_select(t)
        \/ update_todo_execute(t)
        \/ delete_todo_execute(t)
        \/ init_schema_execute(t)
        \/ Commit(t)
        \/ Rollback(t)
        \/ PoolStep(t)

SpecCrud == Init /\ [][NextCrud]_vars

\* SpecData: one worker thread that serves one request at a time against a
\* database that stays up, with the clock moving: updates of the first
\* record with every payload, reads and deletes of every id, and creates; the
\* idle connection of the pool is always there for the thread, so getconn
\* never connects
InitUp == Init /\ dbUp

NextData ==
    \/ init_db_pool
    \/ Tick
    \/ \E t \in {MainThread} :
        \/ \E d \in SomePayloads : create_todo(t, d)
        \/ \E i \in Ids : get_todo(t, i)
        \/ \E i \in SomeIds, d \in Payloads : update_todo(t, i, d)
        \/ \E i \in Ids : delete_todo(t, i)
        \/ get_todo_execute(t)
        \/ create_todo_execute(t)
        \/ update_todo_select(t)
        \/ update_todo_execute(t)
        \/ delete_todo_execute(t)
        \/ init_schema_execute(t)
        \/ Commit(t)
        \/ Rollback(t)
        \/ GetConn(t)
        \/ return_db_conn(t)
        \/ Finish(t)

SpecData == InitUp /\ [][NextData]_vars

\* SpecWrites: one worker thread, one request at a time, the database up
\* and the clock moving, with every payload for create as well as for
\* update, and the listing
NextWrites ==
    \/ init_db_pool
    \/ Tick
    \/ \E t \in {MainThread} :
        \/ get_todos(t)
        \/ \E d \in Payloads : create_todo(t, d)
        \/ \E i \in Ids : get_todo(t, i)
        \/ \E i \in SomeIds, d \in Payloads : update_todo(t, i, d)
        \/ \E i \in Ids : delete_todo(t, i)
        \/ get_todos_execute(t)
        \/ get_todo_execute(t)
        \/ create_todo_execute(t)
        \/ update_todo_select(t)
        \/ update_todo_execute(t)
        \/ delete_todo_execute(t)
        \/ init_schema_execute(t)
        \/ Commit(t)
        \/ Rollback(t)
        \/ GetConn(t)
        \/ return_db_conn(t)
        \/ Finish(t)

SpecWrites == InitUp /\ [][NextWrites]_vars

\* SpecClock: creates and updates on two threads, the database up and the
\* clock moving
NextClock ==
    \/ init_db_pool
    \/ Tick
    \/ \E t \in Threads :
        \/ \E d \in SomePayloads : create_todo(t, d)
        \/ \E i \in SomeIds, d \in SomePayloads : update_todo(t, i, d)
        \/ create_todo_execute(t)
        \/ update_todo_select(t)
        \/ update_todo_execute(t)
        \/ init_schema_execute(t)
        \/ Commit(t)
        \/ Rollback(t)
        \/ PoolStep(t)

SpecClock == InitUp /\ [][NextClock]_vars

\* SpecOutage: one worker thread that serves health probes, and outages
\* that begin and end between two probes
QuietDbDown == (\A t \in Threads : th[t].pc = "idle") /\ DbDown

QuietDbUp == (\A t \in Threads : th[t].pc = "idle") /\ DbUp

NextOutage ==
    \/ init_db_pool
    \/ QuietDbDown
    \/ QuietDbUp
    \/ \E t \in {MainThread} :
        \/ health(t)
        \/ health_execute(t)
        \/ init_schema_execute(t)
        \/ Commit(t)
        \/ PoolStep(t)

SpecOutage == Init /\ [][NextOutage]_vars

\* SpecWorker: one worker thread that serves probes and listings one at a
\* time while the database goes away and comes back; the thread keeps
\* running (a handler that can take its next step takes it)
WorkerStep ==
    \E t \in {MainThread} :
        \/ health_execute(t)
        \/ get_todos_execute(t)
        \/ init_schema_execute(t)
        \/ Commit(t)
        \/ Rollback(t)
        \/ PoolStep(t)

NextWorker ==
    \/ init_db_pool
    \/ DbDown
    \/ DbUp
    \/ \E t \in {MainThread} : health(t) \/ get_todos(t)
    \/ WorkerStep

SpecWorker == Init /\ [][NextWorker]_vars /\ WF_vars(WorkerStep)

\* ------------------------------------------------------------------ properties

\* an invocation between the return of get_db_conn and its call of
\* return_db_conn
Holding == {"exec", "exec2", "commit", "rollback", "release"}

\* C1: the number of connections checked out of the pool (len(_used)) is
\* never more than maxconn.
C1_PoolBound == UsedCount <= maxconn

C3_HealthReturnsConnection ==
    \A t \in Threads :
        th[t].op = "health" /\ th[t].pc = "done" /\ th[t].got => th[t].nrel = 1

\* C4: a mutating handler that is about to call return_db_conn has no
\* transaction open on its connection (it has committed or rolled back).
C4_NoOpenTransactionOnRelease ==
    \A t \in Threads :
        th[t].op \in MutatingOps /\ th[t].pc = "release" =>
            cstat[th[t].conn] \notin {"intrans", "inerror"}

\* C5: no exception leaves a CRUD handler, and a handler that could not get
\* a connection answers 500 'Database error'.
C5_ErrorNormalization ==
    \A t \in Threads :
        th[t].op \in CrudOps /\ th[t].pc = "done" =>
            /\ ~th[t].raised
            /\ (~th[t].got /\ th[t].resp.code # 400 =>
                    th[t].resp = Resp(500, ErrorBody("Database error")))

\* C6: health never raises; it answers 200 healthy/healthy exactly when
\* SELECT 1 ran, and 503 degraded/unhealthy otherwise (no pool, pool
\* exhausted, database unreachable, probe raised).
C6_HealthNeverRaises ==
    /\ [](\A t \in Threads :
            th[t].op = "health" /\ th[t].pc = "done" =>
                /\ ~th[t].raised
                /\ th[t].resp \in {Resp(200, HealthBody(TRUE)), Resp(503, HealthBody(FALSE))}
                /\ (th[t].resp.code = 200 => th[t].got))
    /\ [][\A t \in Threads :
            th[t].op = "health" /\ th[t].pc = "exec" /\ th'[t].pc # "exec" =>
                (th'[t].resp.code = 200 <=> ~StmtFails(th[t].conn, FALSE))]_vars

\* C6 happens: a probe that got a connection and raised is answered 503
C6_Witness ==
    \E t \in Threads :
        /\ th[t].op = "health" /\ th[t].pc = "done" /\ th[t].got
        /\ th[t].resp = Resp(503, HealthBody(FALSE))

\* C7: no connection is held by two invocations at the same time.
C7_ExclusiveOwnership ==
    \A t, u \in Threads :
        t # u /\ th[t].pc \in Holding /\ th[u].pc \in Holding =>
            th[t].conn # th[u].conn

\* the handlers that look a record up by its id
ByIdOps == {"get_todo", "update_todo", "delete_todo"}

\* C8: get_todo, update_todo and delete_todo of an id that is not in the
\* store answer 404 'Todo not found', never 500 and never an exception, and
\* no step of such an invocation changes the store.
C8_NotFound ==
    [][\A t \in Threads :
        th[t].op \in ByIdOps =>
            /\ (th[t].pc = "exec" /\ th'[t].pc # "exec" /\ ~store[th[t].id].exists =>
                    /\ th'[t].pc = "release"
                    /\ th'[t].resp = Resp(404, ErrorBody("Todo not found"))
                    /\ store' = store)
            /\ (th[t].resp.code = 404 =>
                    /\ store' = store
                    /\ (th'[t].pc # "idle" =>
                            th'[t].resp = th[t].resp /\ ~th'[t].raised))]_vars

\* C8 happens: a delete of an absent id has answered 404
C8_Witness ==
    \E t \in Threads :
        /\ th[t].op = "delete_todo" /\ th[t].pc = "done"
        /\ ~store[th[t].id].exists
        /\ th[t].resp = Resp(404, ErrorBody("Todo not found"))

\* the payload has no title field, or there is no payload
NoTitle(d) == ~d.present \/ ~d.hasTitle

C10_PartialUpdate ==
    [][\A t \in Threads :
        th[t].op = "update_todo" /\ th[t].pc = "commit" /\ th'[t].pc = "release" =>
            LET d == th[t].data
                i == th[t].id
                old == store[i]
                new == store'[i] IN
            /\ th'[t].resp = Resp(200, RowBody(i, new))
            /\ old.exists /\ new.exists
            /\ new.title = (IF d.hasTitle THEN d.title ELSE old.title)
            /\ new.completed = (IF d.hasCompleted THEN d.completed ELSE old.completed)
            /\ new.created_at = old.created_at
            /\ new.updated_at = ctime[th[t].conn]
            /\ new.updated_at >= old.updated_at
            /\ \A j \in Ids \ {i} : store'[j] = store[j]]_vars

\* C10 happens: an update that names no business field has moved updated_at
\* and nothing else, next to another record
C10_Witness ==
    \E t \in Threads :
        /\ th[t].op = "update_todo" /\ th[t].pc = "done" /\ th[t].resp.code = 200
        /\ ~th[t].data.hasTitle /\ ~th[t].data.hasCompleted
        /\ store[th[t].id] = th[t].resp.body.row
        /\ store[th[t].id].updated_at > store[th[t].id].created_at
        /\ \E j \in Ids \ {th[t].id} : store[j].exists

\* C11: the commit of a create_todo whose payload has a title and no
\* completed stores, under a new id, the record with that title, completed
\* false and created_at the time of the insert, and answers 201 with it;
\* get_todo of an id in the store answers 200 with the stored record; so a
\* get_todo of a created id that no update or delete touched (here: every id
\* beyond those that updates name) answers the created record.
C11_RoundTrip ==
    /\ [][\A t \in Threads :
            th[t].op = "create_todo" /\ th[t].pc = "commit" /\ th'[t].pc = "release"
            /\ ~th[t].data.hasCompleted =>
                LET i == th[t].id IN
                /\ ~store[i].exists
                /\ store'[i] = Row(th[t].data.title, FALSE, ctime[th[t].conn],
                                   ctime[th[t].conn])
                /\ th'[t].resp = Resp(201, RowBody(i, store'[i]))]_vars
    /\ [][\A t \in Threads :
            th[t].op = "get_todo" /\ th[t].pc = "exec" /\ th'[t].pc # "exec"
            /\ store[th[t].id].exists =>
                th'[t].resp = Resp(200, RowBody(th[t].id, store[th[t].id]))]_vars
    /\ [](\A t \in Threads :
            th[t].op = "get_todo" /\ th[t].pc = "done" /\ th[t].id \notin SomeIds
            /\ store[th[t].id].exists =>
                /\ th[t].resp.code = 200
                /\ th[t].resp.body.id = th[t].id
                /\ \E d \in SomePayloads :
                      d.hasTitle /\ th[t].resp.body.row.title = d.title
                /\ th[t].resp.body.row.completed = FALSE
                /\ th[t].resp.body.row.created_at \in 0 .. now)

\* C11 happens: get_todo has answered a record that a create made after the
\* clock had moved
C11_Witness ==
    \E t \in Threads :
        /\ th[t].op = "get_todo" /\ th[t].pc = "done" /\ th[t].id \notin SomeIds
        /\ th[t].resp.code = 200
        /\ th[t].resp.body.row = store[th[t].id]
        /\ th[t].resp.body.row.title = "b"
        /\ th[t].resp.body.row.created_at > 0

\* C12: init_schema run against a database that already has the table (a
\* second run) keeps the table and every row through all its steps, ends
\* without raising, and leaves the pool as it found it: minconn idle
\* connections, none checked out, none with a transaction open.
C12_IdempotentInit ==
    /\ [][\A t \in Threads :
            th[t].op = "init_schema" /\ tableExists =>
                tableExists' /\ store' = store /\ nextId' = nextId]_vars
    /\ [](\A t \in Threads :
            th[t].op = "init_schema" /\ th[t].pc \in {"acq", "done"} =>
                /\ Len(idle) = minconn
                /\ UsedCount = 0
                /\ \A i \in 1 .. Len(idle) : cstat[idle[i]] = "idle"
                /\ ~th[t].raised)

\* C12 happens: init_schema has ended on a database that had the table and
\* a row
C12_Witness ==
    \E t \in Threads :
        /\ th[t].op = "init_schema" /\ th[t].pc = "done" /\ th[t].nrel = 1
        /\ tableExists /\ store[1].exists

\* C13: init_schema runs only on the importing thread, only once the pool
\* object exists and only during startup; startup moves forward only
\* (import, then schema initialization if the pool was created, then
\* serving), so init_schema runs at most once and never after a failed pool
\* creation; no handler runs before startup is over; and a failed pool
\* creation or the end of init_schema, raised or not, opens the serving.
C13_StartupOrdering ==
    /\ [](\A t \in Threads :
            /\ (th[t].op = "init_schema" =>
                    t = MainThread /\ db_pool = "Pool" /\ startup = "schema")
            /\ (startup # "serving" => th[t].op \in {"none", "init_schema"}))
    /\ [](startup = "schema" => th[MainThread].op = "init_schema")
    /\ [][/\ startup' # startup =>
               <<startup, startup'>> \in {<<"import", "schema">>, <<"import", "serving">>,
                                          <<"schema", "serving">>}
          /\ (startup = "import" /\ startup' # "import" =>
               (startup' = "schema" <=> db_pool' = "Pool"))
          /\ \A t \in Threads :
               th[t].op = "init_schema" /\ th[t].pc = "done" /\ th'[t].pc # "done" =>
                   startup' = "serving"]_vars

\* C13 happens: a handler has run after init_schema raised, and the table
\* is not there
C13_Witness ==
    /\ startup = "serving" /\ db_pool = "Pool" /\ ~tableExists
    /\ \E t \in Threads : th[t].op = "get_todos" /\ th[t].pc = "done"

\* C14: with maxconn connections checked out and none idle, the call of
\* get_db_conn ends at once in a failure of the request (an exception, or
\* the 503 of health), without a connection; and every invocation of a
\* handler comes to its end.
C14_BoundedAcquisition ==
    /\ [][\A t \in Threads :
            th[t].pc = "acq" /\ th'[t].pc # "acq"
            /\ idle = <<>> /\ UsedCount = maxconn =>
                /\ th'[t].pc = "done" /\ ~th'[t].got
                /\ (th'[t].raised \/ th'[t].resp = Resp(503, HealthBody(FALSE)))]_vars
    /\ \A t \in Threads : (th[t].pc # "idle") ~> (th[t].pc = "done")

\* C14 happens: a listing was refused by the exhausted pool
C14_Witness ==
    \E t \in Threads :
        /\ th[t].op = "get_todos" /\ th[t].pc = "done" /\ th[t].raised /\ ~th[t].got
        /\ db_pool = "Pool" /\ idle = <<>> /\ UsedCount = maxconn

Success == {200, 201, 204}

\* C16: when create_todo, update_todo or delete_todo answers 500 its
\* transaction has been rolled back and the committed rows are the ones from
\* before the invocation: the step that sets the 500 leaves the connection
\* without an open transaction and the rows unchanged, the committed rows
\* change only in a step that sets a success response, and a success response
\* is never replaced by a 500.  get_todo and get_todos show exactly the
\* committed rows: a row is in their answer if and only if its create is
\* committed and no delete of it is.
C16_StateUnchangedOnError ==
    /\ [][\A t \in Threads :
            th'[t].op \in MutatingOps /\ th'[t].resp.code = 500 /\ th[t].resp.code # 500 =>
                /\ cstat'[th'[t].conn] = "idle"
                /\ pend'[th'[t].conn] = NoPend
                /\ store' = store]_vars
    /\ [][store' # store =>
            \E t \in Threads : /\ th[t].op \in MutatingOps
                               /\ th[t].resp.code \notin Success
                               /\ th'[t].resp.code \in Success]_vars
    /\ [][\A t \in Threads :
            th[t].resp.code \in Success /\ th'[t].pc # "idle" =>
                th'[t].resp.code # 500]_vars
    /\ [][\A t \in Threads :
            th[t].op = "get_todo" /\ th[t].pc = "exec" /\ th'[t].pc # "exec"
            /\ ~StmtFails(th[t].conn, TRUE) =>
                th'[t].resp = IF store[th[t].id].exists
                              THEN Resp(200, RowBody(th[t].id, store[th[t].id]))
                              ELSE Resp(404, ErrorBody("Todo not found"))]_vars
    /\ [][\A t \in Threads :
            th[t].op = "get_todos" /\ th[t].pc = "exec" /\ th'[t].pc # "exec"
            /\ ~StmtFails(th[t].conn, TRUE) =>
                LET body == th'[t].resp.body IN
                /\ body.kind = "list"
                /\ {body.ids[j] : j \in 1 .. Len(body.ids)} = {i \in Ids : store[i].exists}]_vars

\* C17: every stored record has a title that is neither null nor empty, and a
\* create_todo whose title is null or empty is answered 400.
C17_TitleValidity ==
    /\ \A i \in Ids : store[i].exists => store[i].title \notin {Null, ""}
    /\ \A t \in Threads :
        /\ th[t].op = "create_todo" /\ th[t].pc = "done"
        /\ th[t].data.present /\ th[t].data.hasTitle
        /\ th[t].data.title \in {Null, ""}
        => th[t].resp.code = 400

\* C18: every stored record has updated_at >= created_at; an update_todo
\* that answers 200 does not leave updated_at earlier than it was; an
\* update_todo that answers 404 or 500 leaves the stored records as they
\* are; created_at of a stored record never changes.
C18_Timestamps ==
    /\ [](\A i \in Ids : store[i].exists => store[i].updated_at >= store[i].created_at)
    /\ [][\A t \in Threads :
            th[t].op = "update_todo" /\ th[t].pc = "commit" /\ th'[t].resp.code = 200 =>
                LET i == th[t].id IN
                store[i].exists /\ store'[i].exists =>
                    store'[i].updated_at >= store[i].updated_at]_vars
    /\ [][\A t \in Threads :
            th[t].op = "update_todo" /\ th[t].resp.code = 0
            /\ th'[t].resp.code \in {404, 500} => store' = store]_vars
    /\ [][\A i \in Ids :
            store[i].exists /\ store'[i].exists =>
                store'[i].created_at = store[i].created_at]_vars

\* C19: every 200 answer of update_todo carries the updated record with the
\* requested id; when the record is gone by the time of the UPDATE statement
\* the answer is not a 200.
C19_UpdateCarriesRecord ==
    \A t \in Threads :
        th[t].op = "update_todo" /\ th[t].resp.code = 200 =>
            /\ th[t].resp.body.kind = "row"
            /\ th[t].resp.body.id = th[t].id
            /\ th[t].resp.body.row.exists

\* C20: with the pool created at startup, the database reachable, no other
\* invocation in flight and the connections lost in the outage taken out of
\* the idle list by the probes that failed during it, a health probe obtains
\* a connection and answers 200 "healthy".
C20_HealthRecovers ==
    [][\A t \in Threads :
        /\ th[t].op = "health" /\ th'[t].pc # th[t].pc
        /\ db_pool = "Pool" /\ dbUp
        /\ \A u \in Threads \ {t} : th[u].pc = "idle"
        /\ \A j \in 1 .. Len(idle) : cstat[idle[j]] # "bad"
        /\ th[t].got => cstat[th[t].conn] # "bad"
        => CASE th[t].pc = "acq" -> th'[t].pc \in {"exec", "connect"}
             [] th[t].pc = "connect" -> th'[t].pc = "exec"
             [] th[t].pc = "exec" -> th'[t].resp = Resp(200, HealthBody(TRUE))
             [] th[t].pc = "release" -> th'[t].resp = Resp(200, HealthBody(TRUE))
             [] OTHER -> TRUE]_vars

====
